---- MODULE Spec2Model ----
(***************************************************************************)
(* Model of the standalone CocoIndex watcher (src/standalone_watcher.py):  *)
(* the debounced event handler CocoIndexEventHandler, the watchdog         *)
(* observer that feeds it, the companion (MCP) server supervisor thread,   *)
(* the signal handler and main().                                          *)
(*                                                                         *)
(* Time is a wall clock in whole seconds.  Every statement of the source   *)
(* that blocks or that can be interleaved with another thread is one       *)
(* action; straight-line code between two such points is folded into the   *)
(* action that precedes it.                                                *)
(***************************************************************************)
EXTENDS Integers, Sequences, FiniteSets, TLC

\* ------------------------------------------------------------------ bounds
MaxTicks == 3
MaxEvents == 3
MaxSignals == 2
\* Changes under the watched root while the whole program is followed.
MaxProgramEvents == 2
\* Changes under the watched root while the shutdown is followed to its end.
MaxLiveEvents == 1
\* Chunks of output the companion's stdout/stderr pipe buffer holds.
PipeCapacity == 1
\* The largest clock reading and the largest --debounce-seconds tried on a
\* fresh handler.
MaxClock == 3
MaxWindow == 4
\* The clock reading when the handler is constructed (time.time() is seconds
\* since the epoch, far above any debounce window in use).
Epoch == 10

\* ------------------------------------------------------- program constants
\* default of --debounce-seconds
DefaultDebounce == 2

\* values of --debounce-seconds explored
DebounceChoices == {1, DefaultDebounce}

\* The thread of the watchdog Observer that dispatches queued events.
ObserverThreads == {"obs"}
\* Notification threads calling on_any_event concurrently.
NotifyThreads == {"n1", "n2"}
Threads == ObserverThreads \cup NotifyThreads

NoThread == "none"
NoEvent == 0
EventIds == 1..MaxEvents

\* Ways a subprocess.run call can end.
RunOutcomes == {"ok", "nonzero", "TimeoutExpired", "FileNotFoundError", "OSError"}

VARIABLES
    now,                \* time.time()
    debounce_seconds,   \* self.debounce_seconds
    last_trigger_time,  \* self.last_trigger_time
    lock,               \* self.lock: the thread holding it, or NoThread
    event_queue,        \* the observer's event queue (ids of pending events)
    emitted,            \* number of file-system events that have occurred
    ev_time,            \* ev_time[e]: when event e occurred
    ev_dir,             \* ev_dir[e]: event.is_directory
    ev_during,          \* ev_during[e]: an indexing run was in flight when e occurred
    tpc,                \* tpc[t]: where thread t is inside on_any_event
    tev,                \* tev[t]: the event thread t is handling
    current_time,       \* current_time[t]: the local of on_any_event
    accepted,           \* the events that passed the debounce check
    started,            \* the events whose indexing subprocess was started
    failed,             \* the events whose trigger_indexing call ended in a failure
    escaped,            \* escaped[t]: exception that left on_any_event in thread t
    mcp_server_only,    \* args.mcp_server_only
    with_mcp_server,    \* args.with_mcp_server
    pipe,               \* bytes the companion has written to its stdout/stderr pipes and nobody read
    shutdown_event,     \* shutdown_event.is_set()
    observer,           \* the global observer: "None", "created", "started", "stopped"
    mcp_server_process, \* the global mcp_server_process: "None" or "Popen"
    companion,          \* the companion OS process: "none", "running", "exited"
    spc,                \* where mcp_server_thread is inside run_mcp_server_threaded
    mpc,                \* where the main thread is inside main()
    hstack,             \* the signal_handler invocations on the main thread's stack
    signals,            \* number of SIGINT/SIGTERM received
    pexit,              \* the Python process has exited
    exit_code,          \* its exit status
    audit               \* history of the supervision, see AuditInit

hvars == <<now, debounce_seconds, last_trigger_time, lock, event_queue, emitted,
           ev_time, ev_dir, ev_during, tpc, tev, current_time,
           accepted, started, failed, escaped>>

svars == <<mcp_server_only, pipe, with_mcp_server, shutdown_event, observer, mcp_server_process, companion,
           spc, mpc, hstack, signals, pexit, exit_code, audit>>

vars == <<hvars, svars>>

\* ---------------------------------------------------------------- helpers
RunningThreads == {t \in Threads : tpc[t] = "running"}

\* except Exception: every exception subprocess.run can raise is an Exception
CaughtOnlyTimeout(exc) == exc = "TimeoutExpired"

CaughtByExceptException(exc) == exc \in {"TimeoutExpired", "FileNotFoundError", "OSError"}

\* The except clause of check_cocoindex_available.
CaughtByAvailabilityProbe(exc) == exc \in {"TimeoutExpired", "FileNotFoundError"}

\* check_cocoindex_available: "True", "False" or the exception that leaves it.
check_cocoindex_available(o) ==
    IF o = "ok" THEN "True"
    ELSE IF o = "nonzero" THEN "False"
    ELSE IF CaughtByAvailabilityProbe(o) THEN "False"
    ELSE o

\* The debounce test of on_any_event, line 53.
DebounceRejects(cur, last, window) == cur - last < window

\* --------------------------------------------------------------- the clock
\* The dispatch thread is blocked on the event queue and an event is queued:
\* it wakes up and calls the handler before the clock advances by a whole
\* second.  (Time passes freely while a thread is inside the handler.)
DispatchPending == event_queue # <<>> /\ \E t \in ObserverThreads : tpc[t] = "idle"

Tick ==
    /\ ~pexit
    /\ now < Epoch + MaxTicks
    /\ ~DispatchPending
    /\ now' = now + 1
    /\ UNCHANGED svars
    /\ UNCHANGED <<debounce_seconds, last_trigger_time, lock, event_queue, emitted,
                   ev_time, ev_dir, ev_during, tpc, tev, current_time,
                   accepted, started, failed, escaped>>

\* ------------------------------------------------- file-system notifications
\* A change happens under the watched root; the observer's emitter thread
\* queues the event for the dispatch thread.
Emit ==
    /\ ~pexit /\ observer = "started"
    /\ emitted < MaxEvents
    /\ \E d \in BOOLEAN :
        /\ emitted' = emitted + 1
        /\ ev_time' = [ev_time EXCEPT ![emitted + 1] = now]
        /\ ev_dir' = [ev_dir EXCEPT ![emitted + 1] = d]
        /\ ev_during' = [ev_during EXCEPT ![emitted + 1] = (RunningThreads # {})]
        /\ event_queue' = Append(event_queue, emitted + 1)
    /\ UNCHANGED svars
    /\ UNCHANGED <<now, debounce_seconds, last_trigger_time, lock, tpc, tev,
                   current_time, accepted, started, failed, escaped>>

\* ---------------------------------------------------------- on_any_event
DeliverAll(t, e, dir) ==
    /\ tpc' = [tpc EXCEPT ![t] = "acquire"]
    /\ tev' = [tev EXCEPT ![t] = e]
    /\ current_time' = [current_time EXCEPT ![t] = now]

\* The call of on_any_event(event) in thread t: the is_directory test and
\* the reading of the clock.
Deliver(t, e, dir) ==
    IF dir
    THEN UNCHANGED <<tpc, tev, current_time>>
    ELSE /\ tpc' = [tpc EXCEPT ![t] = "acquire"]
         /\ tev' = [tev EXCEPT ![t] = e]
         /\ current_time' = [current_time EXCEPT ![t] = now]

\* The observer's dispatch thread takes the next queued event and calls the
\* handler with it.
OnAnyEvent(t) ==
    /\ ~pexit /\ observer = "started"
    /\ tpc[t] = "idle"
    /\ event_queue # <<>>
    /\ event_queue' = Tail(event_queue)
    /\ Deliver(t, Head(event_queue), ev_dir[Head(event_queue)])
    /\ UNCHANGED svars
    /\ UNCHANGED <<now, debounce_seconds, last_trigger_time, lock, emitted,
                   ev_time, ev_dir, ev_during, accepted, started, failed, escaped>>

\* A notification thread calls on_any_event at the moment of the change
\* (no queue between the change and the call).
Notify(t) ==
    /\ ~pexit /\ observer = "started"
    /\ tpc[t] = "idle"
    /\ emitted < MaxEvents
    /\ \E d \in BOOLEAN :
        /\ emitted' = emitted + 1
        /\ ev_time' = [ev_time EXCEPT ![emitted + 1] = now]
        /\ ev_dir' = [ev_dir EXCEPT ![emitted + 1] = d]
        /\ ev_during' = [ev_during EXCEPT ![emitted + 1] = (RunningThreads # {})]
        /\ Deliver(t, emitted + 1, d)
    /\ UNCHANGED svars
    /\ UNCHANGED <<now, debounce_seconds, last_trigger_time, lock, event_queue,
                   accepted, started, failed, escaped>>

\* threading.Lock: acquire succeeds only while no thread holds the lock.
LockAlwaysFree(l) == TRUE

LockFree(l) == l = NoThread

LockKept(t) == t

\* with self.lock: (exit) the lock is released when the block is left, by
\* return or at its end.
WithExit(t) == NoThread

\* with self.lock: (entry)
AcquireLock(t) ==
    /\ ~pexit
    /\ tpc[t] = "acquire"
    /\ LockFree(lock)
    /\ lock' = t
    /\ tpc' = [tpc EXCEPT ![t] = "locked"]
    /\ UNCHANGED svars
    /\ UNCHANGED <<now, debounce_seconds, last_trigger_time, event_queue, emitted,
                   ev_time, ev_dir, ev_during, tev, current_time,
                   accepted, started, failed, escaped>>

\* Line 53-54: the comparison; a rejected event returns, which leaves the
\* with block and releases the lock.
DebounceCheck(t) ==
    /\ ~pexit
    /\ tpc[t] = "locked"
    /\ IF DebounceRejects(current_time[t], last_trigger_time, debounce_seconds)
       THEN /\ tpc' = [tpc EXCEPT ![t] = "idle"]
            /\ tev' = [tev EXCEPT ![t] = NoEvent]
            /\ lock' = WithExit(t)
       ELSE /\ tpc' = [tpc EXCEPT ![t] = "update"]
            /\ UNCHANGED <<tev, lock>>
    /\ UNCHANGED svars
    /\ UNCHANGED <<now, debounce_seconds, last_trigger_time, event_queue, emitted,
                   ev_time, ev_dir, ev_during, current_time, accepted, started,
                   failed, escaped>>

\* Line 55: the assignment, and the release of the lock at the end of the
\* with block.
UpdateLastTrigger(t) ==
    /\ ~pexit
    /\ tpc[t] = "update"
    /\ last_trigger_time' = current_time[t]
    /\ accepted' = accepted \cup {tev[t]}
    /\ lock' = WithExit(t)
    /\ tpc' = [tpc EXCEPT ![t] = "trigger"]
    /\ UNCHANGED svars
    /\ UNCHANGED <<now, debounce_seconds, event_queue, emitted, ev_time, ev_dir,
                   ev_during, tev, current_time, started, failed, escaped>>

\* What on_any_event does with the way trigger_indexing ended: a caught
\* exception is logged and the handler returns; another one leaves it.
Finish(t, result, exc) ==
    /\ failed' = IF result = "ok" THEN failed ELSE failed \cup {tev[t]}
    /\ tev' = [tev EXCEPT ![t] = NoEvent]
    /\ IF exc = "none" \/ CaughtByExceptException(exc)
       THEN /\ tpc' = [tpc EXCEPT ![t] = "idle"]
            /\ UNCHANGED escaped
       ELSE /\ tpc' = [tpc EXCEPT ![t] = "dead"]
            /\ escaped' = [escaped EXCEPT ![t] = exc]

\* trigger_indexing up to the start of the indexing subprocess: the
\* availability probe, then subprocess.run(cmd, ...) is entered.
TriggerIndexing(t) ==
    /\ ~pexit
    /\ tpc[t] = "trigger"
    /\ \E o \in RunOutcomes :
        LET r == check_cocoindex_available(o) IN
        IF r = "True"
        THEN /\ tpc' = [tpc EXCEPT ![t] = "running"]
             /\ started' = started \cup {tev[t]}
             /\ UNCHANGED <<failed, tev, escaped>>
        ELSE IF r = "False"
        THEN Finish(t, "unavailable", "none") /\ UNCHANGED started
        ELSE Finish(t, "error", r) /\ UNCHANGED started
    /\ UNCHANGED svars
    /\ UNCHANGED <<now, debounce_seconds, last_trigger_time, lock, event_queue,
                   emitted, ev_time, ev_dir, ev_during, current_time,
                   accepted>>

\* subprocess.run(cmd, timeout=300) returns or raises.
IndexingEnds(t) ==
    /\ ~pexit
    /\ tpc[t] = "running"
    /\ \E o \in RunOutcomes :
        IF o \in {"ok", "nonzero"}
        THEN Finish(t, o, "none")
        ELSE Finish(t, o, o)
    /\ UNCHANGED svars
    /\ UNCHANGED <<started, now, debounce_seconds, last_trigger_time, lock, event_queue,
                   emitted, ev_time, ev_dir, ev_during, current_time,
                   accepted>>

HandlerStep(t) ==
    \/ AcquireLock(t)
    \/ DebounceCheck(t)
    \/ UpdateLastTrigger(t)
    \/ TriggerIndexing(t)
    \/ IndexingEnds(t)

\* ------------------------------------------------------------------- Init
\* The handler after CocoIndexEventHandler.__init__.
HandlerFresh ==
    /\ last_trigger_time = 0
    /\ lock = NoThread
    /\ event_queue = <<>>
    /\ emitted = 0
    /\ ev_time = [e \in EventIds |-> 0]
    /\ ev_dir = [e \in EventIds |-> FALSE]
    /\ ev_during = [e \in EventIds |-> FALSE]
    /\ tpc = [t \in Threads |-> "idle"]
    /\ tev = [t \in Threads |-> NoEvent]
    /\ current_time = [t \in Threads |-> 0]
    /\ accepted = {}
    /\ started = {}
    /\ failed = {}
    /\ escaped = [t \in Threads |-> "none"]

\* A fresh handler at a present-day clock reading, with a debounce window
\* of a few seconds.
HandlerInit ==
    /\ now = Epoch
    /\ debounce_seconds \in DebounceChoices
    /\ HandlerFresh

\* Nothing has happened to the companion yet.
AuditInit ==
    [terminations |-> {},       \* who has called terminate() on the running companion
     sigterms |-> 0,            \* SIGTERMs sent to the companion
     killed |-> FALSE,          \* a SIGKILL was sent to the companion
     sent_to_exited |-> FALSE,  \* a signal was sent to the companion after it exited
     term_error |-> FALSE,      \* an exception left a termination of the companion
     crashed |-> FALSE,         \* the companion exited on its own, no shutdown requested
     handler_stops |-> 0,       \* observer.stop() calls made by signal_handler
     handler_terms |-> 0,       \* terminations of the companion begun by signal_handler
     probe_failed |-> FALSE,    \* the availability probe of main() failed
     launch_failed |-> FALSE,   \* run_mcp_server_threaded gave up before Popen
     run_killed |-> FALSE,      \* subprocess.run killed the companion (no SIGTERM, no grace)
     start_failed |-> FALSE]    \* observer.start() raised

\* main() in watch-only mode inside its wait loop (lines 445-446): the
\* observer is started and no signal has arrived.
WatchingInit ==
    /\ mcp_server_only = FALSE
    /\ with_mcp_server = FALSE
    /\ pipe = 0
    /\ shutdown_event = FALSE
    /\ observer = "started"
    /\ mcp_server_process = "None"
    /\ companion = "none"
    /\ spc = "unstarted"
    /\ mpc = "loop"
    /\ hstack = <<>>
    /\ signals = 0
    /\ pexit = FALSE
    /\ exit_code = 0
    /\ audit = AuditInit

InitWatching == HandlerInit /\ WatchingInit

\* ---------------------------------------------------------------- main()
\* main() after parse_arguments() (line 368), without --initial-index; in
\* the watching modes after path validation and setup_signal_handlers()
\* (line 390) as well.
ProgramInit ==
    /\ mcp_server_only \in BOOLEAN
    /\ with_mcp_server \in BOOLEAN
    /\ pipe = 0
    /\ shutdown_event = FALSE
    /\ observer = "None"
    /\ mcp_server_process = "None"
    /\ companion = "none"
    /\ spc = "unstarted"
    /\ mpc = "start"
    /\ hstack = <<>>
    /\ signals = 0
    /\ pexit = FALSE
    /\ exit_code = 0
    /\ audit = AuditInit

EventToggled(flag) == ~flag

\* threading.Event.set(): the flag is true afterwards, whatever it was.
EventSet(flag) == TRUE

\* The positions of main() that lie inside its try block (lines 441-446).
TryBlock == {"loop"}

\* The main thread executes main() only while no signal_handler invocation
\* is on its stack.
MainRuns == ~pexit /\ hstack = <<>>

\* mcp_server_thread.is_alive()
McpThreadAlive == spc \notin {"unstarted", "done"}

\* The observer's dispatch thread has left its loop (what observer.join()
\* waits for): it stops once it is between two handler calls.
ObserverThreadFinished == \A t \in ObserverThreads : tpc[t] \in {"idle", "dead"}

\* Lines 393-401: start the companion supervisor thread if requested.
StartMcpThread ==
    /\ MainRuns
    /\ ~mcp_server_only
    /\ mpc = "start"
    /\ IF with_mcp_server
       THEN spc' = "probe" /\ mpc' = "sleep"
       ELSE mpc' = "probe" /\ UNCHANGED spc
    /\ UNCHANGED <<mcp_server_only, pipe, with_mcp_server, shutdown_event, observer, mcp_server_process,
                   companion, hstack, signals, pexit, exit_code, audit>>
    /\ UNCHANGED hvars

\* Line 401: time.sleep(2)
MainSleep ==
    /\ MainRuns
    /\ mpc = "sleep"
    /\ mpc' = "probe"
    /\ UNCHANGED <<mcp_server_only, pipe, with_mcp_server, shutdown_event, observer, mcp_server_process,
                   companion, spc, hstack, signals, pexit, exit_code, audit>>
    /\ UNCHANGED hvars

\* Lines 409-413: the availability probe at startup; sys.exit(1) when the
\* backend is missing (an exception leaving the probe ends the process with
\* status 1 as well).
ProbeNeverFatal(r) == FALSE

\* Line 409: if not handler.check_cocoindex_available()
ProbeFatal(r) == r # "True"

MainProbe ==
    /\ MainRuns
    /\ mpc = "probe"
    /\ \E o \in RunOutcomes :
        LET r == check_cocoindex_available(o) IN
        /\ audit' = [audit EXCEPT !.probe_failed = (r # "True")]
        /\ IF ProbeFatal(r)
           THEN pexit' = TRUE /\ exit_code' = 1 /\ UNCHANGED mpc
           ELSE mpc' = "create_observer" /\ UNCHANGED <<pexit, exit_code>>
    /\ UNCHANGED <<mcp_server_only, pipe, with_mcp_server, shutdown_event, observer, mcp_server_process,
                   companion, spc, hstack, signals>>
    /\ UNCHANGED hvars

\* Lines 437-439: observer = Observer(); observer.schedule(...)
CreateObserver ==
    /\ MainRuns
    /\ mpc = "create_observer"
    /\ observer' = "created"
    /\ mpc' = "observer_start"
    /\ UNCHANGED <<mcp_server_only, pipe, with_mcp_server, shutdown_event, mcp_server_process, companion,
                   spc, hstack, signals, pexit, exit_code, audit>>
    /\ UNCHANGED hvars

\* Lines 441-446: observer.start(), then the wait loop.  The loop has no
\* exit of its own: shutdown_event is set only by signal_handler, which
\* leaves by sys.exit, and by the finally block.  observer.start() can
\* raise (the watch cannot be set up): the finally block runs with the
\* exception pending.
ObserverStart ==
    /\ MainRuns
    /\ mpc = "observer_start"
    /\ \/ /\ observer' = "started"
          /\ mpc' = "loop"
          /\ UNCHANGED audit
       \/ /\ mpc' = "fin_stop"
          /\ audit' = [audit EXCEPT !.start_failed = TRUE]
          /\ UNCHANGED observer
    /\ UNCHANGED <<mcp_server_only, pipe, with_mcp_server, shutdown_event, mcp_server_process, companion,
                   spc, hstack, signals, pexit, exit_code>>
    /\ UNCHANGED hvars

\* The exit status when main() is left through its finally block: 0 after
\* sys.exit(0) of signal_handler, 1 when an exception is pending.
MainExitStatus == IF audit.start_failed THEN 1 ELSE 0

\* Lines 454-457: shutdown_event.set(); observer.stop()
FinStop ==
    /\ MainRuns
    /\ mpc = "fin_stop"
    /\ shutdown_event' = EventSet(shutdown_event)
    /\ observer' = "stopped"
    /\ mpc' = "fin_join"
    /\ UNCHANGED <<mcp_server_only, pipe, with_mcp_server, mcp_server_process, companion, spc, hstack,
                   signals, pexit, exit_code, audit>>
    /\ UNCHANGED hvars

\* Lines 458-460: observer.join() returns, then the is_alive() test; without
\* a live companion thread main() ends and SystemExit(0) ends the process.
FinJoin ==
    /\ MainRuns
    /\ mpc = "fin_join"
    /\ ObserverThreadFinished
    /\ IF McpThreadAlive
       THEN mpc' = "fin_mcp_join" /\ UNCHANGED <<pexit, exit_code>>
       ELSE pexit' = TRUE /\ exit_code' = MainExitStatus /\ UNCHANGED mpc
    /\ UNCHANGED <<mcp_server_only, pipe, with_mcp_server, shutdown_event, observer, mcp_server_process,
                   companion, spc, hstack, signals, audit>>
    /\ UNCHANGED hvars

\* Lines 464-466: mcp_server_thread.join(timeout=5) returns, because the
\* thread ended or because the five seconds passed; main() ends.
FinMcpJoin ==
    /\ MainRuns
    /\ mpc = "fin_mcp_join"
    /\ pexit' = TRUE
    /\ exit_code' = MainExitStatus
    /\ UNCHANGED <<mcp_server_only, pipe, with_mcp_server, shutdown_event, observer, mcp_server_process,
                   companion, spc, mpc, hstack, signals, audit>>
    /\ UNCHANGED hvars

MainStep ==
    \/ StartMcpThread
    \/ MainSleep
    \/ MainProbe
    \/ CreateObserver
    \/ ObserverStart
    \/ FinStop
    \/ FinJoin
    \/ FinMcpJoin

\* ------------------------------------------------- the companion process
\* The companion is inside a write to its stdout/stderr pipe that cannot
\* complete: the buffer is full and nothing has been read from it.
PipeBlocked == pipe > PipeCapacity

\* The companion writes a chunk of output.  Only the Popen of line 327 has
\* pipes (stdout=PIPE, stderr=PIPE); subprocess.run(cmd, check=True) of
\* line 273 lets the child inherit the terminal.
CompanionWrites ==
    /\ companion = "running"
    /\ mcp_server_process = "Popen"
    /\ ~PipeBlocked
    /\ pipe' = pipe + 1
    /\ UNCHANGED <<mcp_server_only, with_mcp_server, shutdown_event, observer,
                   mcp_server_process, companion, spc, mpc, hstack, signals,
                   pexit, exit_code, audit>>
    /\ UNCHANGED hvars

\* The companion server process ends: on its own (not while it is blocked
\* in a write), or after a SIGTERM.
CompanionExits ==
    /\ companion = "running"
    /\ ~PipeBlocked \/ audit.sigterms > 0
    /\ companion' = "exited"
    /\ audit' = [audit EXCEPT !.crashed = @ \/ (audit.sigterms = 0 /\ ~shutdown_event)]
    /\ UNCHANGED <<mcp_server_only, pipe, with_mcp_server, shutdown_event, observer, mcp_server_process,
                   spc, mpc, hstack, signals, pexit, exit_code>>
    /\ UNCHANGED hvars

\* Popen.send_signal polls first and sends nothing to a process that has
\* already been waited for.
SendsSignal(c) == c = "running"

WaitNeverTimesOut(c) == FALSE

\* Popen.wait(timeout=5) raises TimeoutExpired while the process runs.
WaitTimesOut(c) == c = "running"

\* except subprocess.TimeoutExpired: around wait(timeout=5)
TerminationCatchesNothing(exc) == FALSE

TerminationCatches(exc) == exc = "TimeoutExpired"

\* mcp_server_process and mcp_server_process.poll() is None
CompanionSeenRunning == mcp_server_process # "None" /\ companion = "running"

\* The audit after mcp_server_process.terminate() called by `who`.
AfterTerminate(who) ==
    [audit EXCEPT
        !.terminations = @ \cup {who},
        !.sigterms = IF SendsSignal(companion) THEN @ + 1 ELSE @,
        !.sent_to_exited = @ \/ (SendsSignal(companion) /\ companion # "running"),
        !.handler_terms = IF who = "handler" THEN @ + 1 ELSE @]

\* The audit after mcp_server_process.kill().
AfterKill ==
    [audit EXCEPT
        !.killed = @ \/ SendsSignal(companion),
        !.sent_to_exited = @ \/ (SendsSignal(companion) /\ companion # "running")]

\* ------------------------------------------------------- signal_handler
Top == hstack[Len(hstack)]
SetTop(pc) == [hstack EXCEPT ![Len(hstack)] = pc]

\* SIGINT or SIGTERM arrives: signal_handler is entered on the main thread,
\* on top of whatever it was executing; line 114, shutdown_event.set().
SignalArrives ==
    /\ ~pexit
    /\ ~mcp_server_only
    /\ signals < MaxSignals
    /\ signals' = signals + 1
    /\ hstack' = Append(hstack, "h_stop")
    /\ shutdown_event' = EventSet(shutdown_event)
    /\ UNCHANGED <<mcp_server_only, pipe, with_mcp_server, observer, mcp_server_process, companion, spc,
                   mpc, pexit, exit_code, audit>>
    /\ UNCHANGED hvars

\* Lines 117-123: observer.stop() if there is an observer, then the test
\* whether the companion is running.
HandlerStop ==
    /\ ~pexit /\ hstack # <<>> /\ Top = "h_stop"
    /\ observer' = IF observer = "None" THEN observer ELSE "stopped"
    /\ audit' = [audit EXCEPT !.handler_stops = IF observer = "None" THEN @ ELSE @ + 1]
    /\ hstack' = SetTop(IF CompanionSeenRunning THEN "h_term" ELSE "h_exit")
    /\ UNCHANGED <<mcp_server_only, pipe, with_mcp_server, shutdown_event, mcp_server_process, companion,
                   spc, mpc, signals, pexit, exit_code>>
    /\ UNCHANGED hvars

\* Line 125: mcp_server_process.terminate()
HandlerTerminate ==
    /\ ~pexit /\ hstack # <<>> /\ Top = "h_term"
    /\ audit' = AfterTerminate("handler")
    /\ hstack' = SetTop("h_wait")
    /\ UNCHANGED <<mcp_server_only, pipe, with_mcp_server, shutdown_event, observer, mcp_server_process,
                   companion, spc, mpc, signals, pexit, exit_code>>
    /\ UNCHANGED hvars

\* Lines 126-131: mcp_server_process.wait(timeout=5) returns, or raises
\* TimeoutExpired, which the except clause catches.  (An exception that
\* left the handler would end the process with a traceback.)
HandlerWait ==
    /\ ~pexit /\ hstack # <<>> /\ Top = "h_wait"
    /\ \/ /\ companion = "exited"
          /\ hstack' = SetTop("h_exit")
          /\ UNCHANGED <<audit, pexit, exit_code>>
       \/ /\ WaitTimesOut(companion)
          /\ IF TerminationCatches("TimeoutExpired")
             THEN /\ hstack' = SetTop("h_kill")
                  /\ UNCHANGED <<audit, pexit, exit_code>>
             ELSE /\ audit' = [audit EXCEPT !.term_error = TRUE]
                  /\ pexit' = TRUE
                  /\ exit_code' = 1
                  /\ UNCHANGED hstack
    /\ UNCHANGED <<mcp_server_only, pipe, with_mcp_server, shutdown_event, observer, mcp_server_process,
                   companion, spc, mpc, signals>>
    /\ UNCHANGED hvars

\* Line 132: mcp_server_process.kill()
HandlerKill ==
    /\ ~pexit /\ hstack # <<>> /\ Top = "h_kill"
    /\ audit' = AfterKill
    /\ companion' = IF SendsSignal(companion) THEN "exited" ELSE companion
    /\ hstack' = SetTop("h_exit")
    /\ UNCHANGED <<mcp_server_only, pipe, with_mcp_server, shutdown_event, observer, mcp_server_process,
                   spc, mpc, signals, pexit, exit_code>>
    /\ UNCHANGED hvars

\* Line 134: sys.exit(0).  SystemExit unwinds every signal_handler
\* invocation on the stack; inside the try block of main() it runs the
\* finally block, anywhere else it ends the process.
HandlerExit ==
    /\ ~pexit /\ hstack # <<>> /\ Top = "h_exit"
    /\ hstack' = <<>>
    /\ IF mpc \in TryBlock
       THEN mpc' = "fin_stop" /\ UNCHANGED <<pexit, exit_code>>
       ELSE pexit' = TRUE /\ exit_code' = 0 /\ UNCHANGED mpc
    /\ UNCHANGED <<mcp_server_only, pipe, with_mcp_server, shutdown_event, observer, mcp_server_process,
                   companion, spc, signals, audit>>
    /\ UNCHANGED hvars

signal_handler ==
    \/ HandlerStop
    \/ HandlerTerminate
    \/ HandlerWait
    \/ HandlerKill
    \/ HandlerExit

\* ---------------------------------------------- run_mcp_server_threaded
\* How the two tests before the launch of the companion can end: the flow
\* file exists and `import cocoindex` works, or one of them fails.
LaunchChecks == {"ok", "no_flow_file", "not_importable"}

\* Lines 292-309: the flow-file test and the `import cocoindex` probe.
SupProbe ==
    /\ ~pexit
    /\ spc = "probe"
    /\ \E r \in LaunchChecks :
        /\ spc' = IF r = "ok" THEN "spawn" ELSE "done"
        /\ audit' = [audit EXCEPT !.launch_failed = (r # "ok")]
    /\ UNCHANGED <<mcp_server_only, pipe, with_mcp_server, shutdown_event, observer, mcp_server_process,
                   companion, mpc, hstack, signals, pexit, exit_code>>
    /\ UNCHANGED hvars

\* Lines 327-329: mcp_server_process = subprocess.Popen(...)
SupSpawn ==
    /\ ~pexit
    /\ spc = "spawn"
    /\ mcp_server_process' = "Popen"
    /\ companion' = "running"
    /\ spc' = "loop"
    /\ UNCHANGED <<mcp_server_only, pipe, with_mcp_server, shutdown_event, observer, mpc, hstack, signals,
                   pexit, exit_code, audit>>
    /\ UNCHANGED hvars

LoopRestarts(seen) == IF seen THEN "s_term" ELSE "spawn"

\* Lines 349-361: the finally block tests whether the companion is still
\* running; if not, the thread function returns.
LoopLeft(seen) == IF seen THEN "s_term" ELSE "done"

\* Lines 333-344: poll() is not None: communicate() reads what is left in
\* the pipes, the output is printed and the loop is left by break.
SupCommunicate ==
    /\ ~pexit
    /\ spc = "loop"
    /\ companion = "exited"
    /\ pipe' = 0
    /\ spc' = LoopLeft(CompanionSeenRunning)
    /\ UNCHANGED <<mcp_server_only, with_mcp_server, shutdown_event, observer,
                   mcp_server_process, companion, mpc, hstack, signals, pexit,
                   exit_code, audit>>
    /\ UNCHANGED hvars

\* Line 332: the loop test finds shutdown_event set.
SupShutdownSeen ==
    /\ ~pexit
    /\ spc = "loop"
    /\ shutdown_event
    /\ spc' = LoopLeft(CompanionSeenRunning)
    /\ UNCHANGED <<mcp_server_only, pipe, with_mcp_server, shutdown_event, observer, mcp_server_process,
                   companion, mpc, hstack, signals, pexit, exit_code, audit>>
    /\ UNCHANGED hvars

\* Lines 332-350: the loop is left when shutdown_event is set or when the
\* process has ended (its output is then read and printed).
SupLoop == SupCommunicate \/ SupShutdownSeen

\* Line 354: mcp_server_process.terminate()
SupTerminate ==
    /\ ~pexit
    /\ spc = "s_term"
    /\ audit' = AfterTerminate("supervisor")
    /\ spc' = "s_wait"
    /\ UNCHANGED <<mcp_server_only, pipe, with_mcp_server, shutdown_event, observer, mcp_server_process,
                   companion, mpc, hstack, signals, pexit, exit_code>>
    /\ UNCHANGED hvars

\* Lines 355-360: mcp_server_process.wait(timeout=5)
SupWait ==
    /\ ~pexit
    /\ spc = "s_wait"
    /\ \/ /\ companion = "exited"
          /\ spc' = "done"
          /\ UNCHANGED audit
       \/ /\ WaitTimesOut(companion)
          /\ IF TerminationCatches("TimeoutExpired")
             THEN spc' = "s_kill" /\ UNCHANGED audit
             ELSE spc' = "done" /\ audit' = [audit EXCEPT !.term_error = TRUE]
    /\ UNCHANGED <<mcp_server_only, pipe, with_mcp_server, shutdown_event, observer, mcp_server_process,
                   companion, mpc, hstack, signals, pexit, exit_code>>
    /\ UNCHANGED hvars

\* Line 361: mcp_server_process.kill()
SupKill ==
    /\ ~pexit
    /\ spc = "s_kill"
    /\ audit' = AfterKill
    /\ companion' = IF SendsSignal(companion) THEN "exited" ELSE companion
    /\ spc' = "done"
    /\ UNCHANGED <<mcp_server_only, pipe, with_mcp_server, shutdown_event, observer, mcp_server_process,
                   mpc, hstack, signals, pexit, exit_code>>
    /\ UNCHANGED hvars

run_mcp_server_threaded ==
    \/ SupProbe
    \/ SupSpawn
    \/ SupLoop
    \/ SupTerminate
    \/ SupWait
    \/ SupKill

\* --------------------------------------- run_mcp_server (--mcp-server-only)
\* Lines 371-372 and 246-258: main() calls run_mcp_server, which tests the
\* flow file and probes `import cocoindex`; sys.exit(1) if either fails.
ServerOnlyChecks ==
    /\ MainRuns
    /\ mcp_server_only
    /\ mpc = "start"
    /\ \E r \in LaunchChecks :
        IF r = "ok"
        THEN mpc' = "srv_run" /\ UNCHANGED <<pexit, exit_code>>
        ELSE pexit' = TRUE /\ exit_code' = 1 /\ UNCHANGED mpc
    /\ UNCHANGED <<mcp_server_only, pipe, with_mcp_server, shutdown_event, observer, mcp_server_process,
                   companion, spc, hstack, signals, audit>>
    /\ UNCHANGED hvars

\* Line 273: subprocess.run(cmd, check=True) starts the companion and waits
\* for it.  The global mcp_server_process is not assigned in this mode.
ServerOnlyRun ==
    /\ MainRuns
    /\ mpc = "srv_run"
    /\ companion' = "running"
    /\ mpc' = "srv_wait"
    /\ UNCHANGED <<mcp_server_only, pipe, with_mcp_server, shutdown_event, observer, mcp_server_process,
                   spc, hstack, signals, pexit, exit_code, audit>>
    /\ UNCHANGED hvars

\* Lines 273-277 and 372-373: the companion has ended; a nonzero return
\* code raises CalledProcessError, answered by sys.exit(1); otherwise
\* run_mcp_server and main() return.
ServerOnlyReturns ==
    /\ MainRuns
    /\ mpc = "srv_wait"
    /\ companion = "exited"
    /\ pexit' = TRUE
    /\ exit_code' \in {0, 1}
    /\ UNCHANGED <<mcp_server_only, pipe, with_mcp_server, shutdown_event, observer, mcp_server_process,
                   companion, spc, mpc, hstack, signals, audit>>
    /\ UNCHANGED hvars

\* The exit status of a process ended by a signal it does not handle, as a
\* shell reports it.
KilledBy(sig) == 128 + (IF sig = "SIGINT" THEN 2 ELSE 15)

\* A signal in --mcp-server-only mode, where main() returns at line 373
\* and setup_signal_handlers() (line 390) is never called.  SIGTERM has its
\* default action: the process ends at once.  SIGINT raises
\* KeyboardInterrupt in the main thread: inside subprocess.run of line 273
\* the child is killed (Popen.kill) and lines 278-280 answer with
\* sys.exit(0); anywhere else nothing catches it.
DefaultSignal ==
    /\ ~pexit
    /\ mcp_server_only
    /\ signals < MaxSignals
    /\ signals' = signals + 1
    /\ pexit' = TRUE
    /\ \E sig \in {"SIGINT", "SIGTERM"} :
        IF sig = "SIGINT" /\ mpc = "srv_wait"
        THEN /\ exit_code' = 0
             /\ companion' = IF SendsSignal(companion) THEN "exited" ELSE companion
             /\ audit' = [audit EXCEPT !.run_killed = SendsSignal(companion)]
        ELSE /\ exit_code' = KilledBy(sig)
             /\ UNCHANGED <<companion, audit>>
    /\ UNCHANGED <<mcp_server_only, pipe, with_mcp_server, shutdown_event, observer, mcp_server_process,
                   spc, mpc, hstack>>
    /\ UNCHANGED hvars

run_mcp_server ==
    \/ ServerOnlyChecks
    \/ ServerOnlyRun
    \/ ServerOnlyReturns
    \/ DefaultSignal

\* main(), the signal handler, the companion supervisor thread and the
\* companion process, without the companion's output.
Supervision ==
    \/ MainStep
    \/ SignalArrives
    \/ signal_handler
    \/ run_mcp_server_threaded
    \/ run_mcp_server
    \/ CompanionExits

\* The whole program.
Next ==
    \/ Supervision
    \/ CompanionWrites

Init == HandlerInit /\ ProgramInit

Spec == Init /\ [][Next]_vars

\* The handler called from several notification threads.
NextThreads ==
    \/ Tick
    \/ \E t \in NotifyThreads : Notify(t) \/ HandlerStep(t)

SpecThreads == InitWatching /\ [][NextThreads]_vars

\* The handler called from the observer's single dispatch thread.
NextObserver ==
    \/ Tick
    \/ Emit
    \/ \E t \in ObserverThreads : OnAnyEvent(t) \/ HandlerStep(t)

SpecObserver == InitWatching /\ [][NextObserver]_vars

\* A fresh handler under any clock reading and any debounce window, called
\* from the observer's dispatch thread (the clock stands still).
InitFresh ==
    /\ now \in 0..MaxClock
    /\ debounce_seconds \in 0..MaxWindow
    /\ HandlerFresh
    /\ WatchingInit

NextFresh ==
    \/ Emit
    \/ \E t \in ObserverThreads : OnAnyEvent(t) \/ HandlerStep(t)

SpecFresh == InitFresh /\ [][NextFresh]_vars

\* The whole program together with the observer's dispatch thread: changes
\* under the watched root are delivered while main(), the signal handler
\* and the supervisor thread run.  (No clock: all events fall in one
\* second; the companion's output is left out.)
NextProgram ==
    \/ Supervision
    \/ emitted < MaxProgramEvents /\ Emit
    \/ \E t \in ObserverThreads : OnAnyEvent(t) \/ HandlerStep(t)

\* Without a clock the width of the debounce window makes no difference:
\* the default is taken.
InitProgram == Init /\ debounce_seconds = DefaultDebounce

SpecProgram == InitProgram /\ [][NextProgram]_vars

\* Scheduling: every thread that can take a step eventually takes one.  The
\* steps that wait are bounded by the code: subprocess.run has timeout=10
\* and timeout=300, Popen.wait and Thread.join have timeout=5, time.sleep
\* ends.  Nothing is assumed about signals, file changes, or the companion
\* ending by itself.
FairProgram ==
    /\ WF_vars(MainStep)
    /\ WF_vars(signal_handler)
    /\ WF_vars(run_mcp_server_threaded)
    /\ \A t \in ObserverThreads : WF_vars(HandlerStep(t))

\* The watching modes (main() goes past line 373), with few file changes.
InitLive == InitProgram /\ ~mcp_server_only

NextLive ==
    \/ MainStep
    \/ SignalArrives
    \/ signal_handler
    \/ run_mcp_server_threaded
    \/ CompanionExits
    \/ emitted < MaxLiveEvents /\ Emit
    \/ \E t \in ObserverThreads : OnAnyEvent(t) \/ HandlerStep(t)

SpecLive == InitLive /\ [][NextLive]_vars /\ FairProgram

\* ------------------------------------------------------------------ claims
Abs(x) == IF x < 0 THEN 0 - x ELSE x

\* Non-directory events whose debounce check has been decided.
Decided == {e \in 1..emitted : ~ev_dir[e] /\ \A t \in Threads : tev[t] # e \/ tpc[t] \in {"trigger", "running"}}

NonDirectory == {e \in 1..emitted : ~ev_dir[e]}

\* C1: any two events accepted by the debounce check were delivered (their
\* clock reading taken) at least debounce_seconds apart, also when
\* on_any_event is called from several threads.
C1_AcceptedApart ==
    \A e1, e2 \in accepted :
        e1 # e2 => Abs(ev_time[e1] - ev_time[e2]) >= debounce_seconds

\* Two events were accepted and another one, handled by the other thread
\* while the first was inside the handler, was rejected.
C1_Witness ==
    /\ Cardinality(accepted) >= 2
    /\ \E e \in Decided : e \notin accepted
    /\ \E t \in NotifyThreads : tpc[t] = "running"

\* C2 (as claimed): when the non-directory events are delivered pairwise at
\* least debounce_seconds apart, every one of them is accepted, whatever the
\* interleaving of the threads delivering them.
C2_SpacedEventsAllAccepted ==
    (\A e1, e2 \in NonDirectory :
        e1 # e2 => Abs(ev_time[e1] - ev_time[e2]) >= debounce_seconds)
    => Decided \subseteq accepted

\* C3 (as claimed): at most one indexing subprocess is in flight.
C3_AtMostOneRun == Cardinality(RunningThreads) <= 1
\* The observer thread has handled everything that occurred.
Quiescent == event_queue = <<>> /\ \A t \in Threads : tpc[t] \in {"idle", "dead"}

FirstEvent(S) == CHOOSE e \in S : \A x \in S : e <= x
LastEvent(S) == CHOOSE e \in S : \A x \in S : x <= e

\* All events of S occurred less than debounce_seconds after the first of S.
IsBurst(S) == S # {} /\ \A e \in S : ev_time[e] - ev_time[FirstEvent(S)] < debounce_seconds

\* C4 (as claimed): an event that occurred while an indexing run was in
\* flight is dropped: it never starts an indexing run of its own.
C4_EventDuringRunDropped == \A e \in started : ~ev_during[e]

\* C5 (as claimed): a burst of non-directory events occurring within less
\* than debounce_seconds of the first triggers exactly one indexing run, and a
\* single later event, at least debounce_seconds after the burst, exactly
\* one more.
C5_BurstTriggersOneRun ==
    Quiescent =>
        /\ IsBurst(NonDirectory) => Cardinality(accepted) = 1
        /\ LET l == LastEvent(NonDirectory)
               B == NonDirectory \ {l}
           IN  (/\ Cardinality(NonDirectory) >= 2
                /\ IsBurst(B)
                /\ \A e \in B : ev_time[l] - ev_time[e] >= debounce_seconds)
               => Cardinality(accepted) = 2

\* C6: a failed indexing run (nonzero exit, timeout, backend not launchable
\* or unavailable) never leaves on_any_event as an error and never stops the
\* dispatching thread, and every event that passes the debounce check, also
\* one after a failure, goes on to trigger_indexing.
C6_FailureAbsorbed ==
    /\ \A t \in Threads : escaped[t] = "none" /\ tpc[t] # "dead"
    /\ \A e \in accepted \ (started \cup failed) :
           \E t \in Threads : tev[t] = e /\ tpc[t] = "trigger"

\* A run failed and an indexing subprocess was started for a later event.
C6_Witness ==
    \E f \in failed : \E e \in started : f < e /\ \E t \in ObserverThreads : tpc[t] = "running" /\ tev[t] = e
\* C7 (as claimed): when the companion exits on its own while no shutdown is
\* requested, the failure reaches main(): by the time the supervisor thread
\* has finished with the dead companion, the main loop has been told to stop
\* watching.
C7_CrashReachesOrchestrator ==
    (audit.crashed /\ spc = "done" /\ mpc = "loop") => shutdown_event

\* C8: terminating the companion from signal_handler and from the finally
\* block of the supervisor thread, in any interleaving, or after it has
\* exited on its own, raises no error, never waits on the companion without
\* the five-second timeout being able to end the wait, and sends no signal
\* to a process that has already exited.
C8_TerminateTwiceSafe ==
    /\ ~audit.term_error
    /\ ~audit.sent_to_exited
    /\ (~pexit /\ hstack # <<>> /\ Top = "h_wait") => ENABLED HandlerWait
    /\ (~pexit /\ spc = "s_wait") => ENABLED SupWait

\* Both signal_handler and the supervisor thread have terminated the
\* companion, both are through, and the companion has exited.
C8_Witness ==
    /\ audit.terminations = {"handler", "supervisor"}
    /\ audit.sigterms >= 2
    /\ spc = "done"
    /\ hstack = <<>>
    /\ companion = "exited"

\* C9 (as claimed): a kill is only sent after a graceful-stop signal, and
\* every termination of the companion that was begun has ended with the
\* companion exited by the time the process is gone.
C9_TerminationEndsExited ==
    /\ audit.killed => audit.sigterms >= 1
    /\ (pexit /\ audit.terminations # {}) => companion = "exited"

\* C10 (as claimed): a second termination request does not run the shutdown
\* steps of signal_handler again: no second observer.stop(), no second
\* terminate() of the companion.
C10_SecondRequestNoOp ==
    /\ audit.handler_stops <= 1
    /\ audit.handler_terms <= 1

\* C11: once the supervising process has exited, neither the companion
\* server process nor an indexing subprocess is still running.
C11_NoOrphanedChildren ==
    pexit => (companion # "running" /\ RunningThreads = {})

\* C13: the companion is sent its termination signal only after shutdown
\* was marked, the watcher is no longer delivering, and no indexing run is
\* in flight.
C13_ShutdownOrdered ==
    [][audit'.sigterms > audit.sigterms =>
        (shutdown_event /\ observer # "started" /\ RunningThreads = {})]_vars

\* C14: when the availability probe of main() fails, the process has exited
\* with a nonzero status, the observer was never started, no event was
\* delivered and no indexing run happened.
C14_ProbeFailureFatal ==
    audit.probe_failed =>
        /\ pexit /\ exit_code # 0
        /\ observer \in {"None"}
        /\ emitted = 0 /\ accepted = {} /\ started = {}
        /\ \A t \in Threads : tpc[t] = "idle"

\* The probe failed in combined mode while the companion was already up.
C14_Witness ==
    audit.probe_failed /\ with_mcp_server /\ spc = "loop"

\* C15: in every mode, when SIGINT or SIGTERM has ended the process and a
\* companion had been started, the exit status is 0 and the companion was
\* not killed without a SIGTERM and a grace period first.
C15_SignalsShutDownGracefully ==
    (pexit /\ signals > 0 /\ companion # "none") =>
        /\ exit_code = 0
        /\ ~audit.run_killed
        /\ audit.killed => audit.sigterms >= 1

\* The lifecycle state of the companion, as far as the program has driven
\* it: 0 NotStarted, 1 Starting, 2 Running, 3 Terminating, 4 Exited (the
\* process has ended, or the supervisor gave up before launching it).
CompanionLifecycle ==
    IF companion = "exited" THEN 4
    ELSE IF companion = "running" THEN (IF audit.sigterms > 0 THEN 3 ELSE 2)
    ELSE IF spc = "unstarted" THEN 0
    ELSE IF spc = "done" THEN 4
    ELSE 1

\* C16: the companion's lifecycle never returns to an earlier state,
\* Terminating is entered only from Running, and Exited is final (no second
\* companion process is spawned).
C16_LifecycleForward ==
    [][/\ CompanionLifecycle' >= CompanionLifecycle
       /\ (CompanionLifecycle' = 3 /\ CompanionLifecycle # 3) => CompanionLifecycle = 2
       /\ CompanionLifecycle = 4 => (CompanionLifecycle' = 4 /\ companion' = companion)]_vars

\* The companion went through Starting, Running and Terminating and has
\* exited; the supervisor thread has returned.
C16_Witness ==
    /\ companion = "exited" /\ spc = "done"
    /\ audit.sigterms > 0 /\ audit.terminations = {"supervisor"}

\* C17: in combined mode, once the companion could not be launched the
\* program does not go on to start watching, and if it ends without a
\* signal its exit status is nonzero.
C17_LaunchFailureFatal ==
    [][/\ (audit.launch_failed /\ observer' = "started") => observer = "started"
       /\ (audit.launch_failed /\ pexit' /\ signals' = 0) => exit_code' # 0]_vars

\* C18: whenever the companion is blocked in a write on its full output
\* pipe, the supervisor can read from the pipe.
C18_OutputDrainedWhileRunning ==
    (companion = "running" /\ PipeBlocked) => ENABLED SupCommunicate

\* C19: only the supervisor thread (run_mcp_server_threaded) terminates or
\* kills the companion.
C19_OnlySupervisorSignals ==
    audit.terminations \subseteq {"supervisor"}

\* C20: shutdown_event starts unset and no step clears it.
C20_ShutdownMonotonic ==
    ~shutdown_event /\ [][shutdown_event => shutdown_event']_vars

\* A second signal arrived and main() went through its finally block after
\* shutdown_event had been set by the first.
C20_Witness ==
    shutdown_event /\ signals = 2 /\ mpc = "fin_mcp_join" /\ pexit

\* C21: every step that takes shutdown_event from unset to set is the entry
\* of signal_handler; main(), the observer thread and the supervisor thread
\* never set it.
C21_OnlyHandlerSetsShutdown ==
    [][(~shutdown_event /\ shutdown_event') => signals' = signals + 1]_vars

\* C22: the first non-directory event delivered to a fresh handler is
\* accepted by the debounce check, whatever the clock reading and the
\* debounce window.
C22_FirstEventAccepted ==
    (Quiescent /\ NonDirectory # {}) => FirstEvent(NonDirectory) \in accepted

\* C23: last_trigger_time changes only in a step that accepts an event, and
\* becomes the clock reading taken for that event; directory events and
\* rejected events never start an indexing run.
C23_LastTriggerFrame ==
    [][/\ last_trigger_time' # last_trigger_time =>
            \E e \in accepted' \ accepted : last_trigger_time' = ev_time[e]
       /\ started' \subseteq accepted'
       /\ \A e \in accepted' : ~ev_dir[e]]_vars

\* A directory event was delivered, one event was rejected, and the last
\* accepted event's clock reading is in last_trigger_time.
C23_Witness ==
    /\ \E e \in 1..emitted : ev_dir[e]
    /\ \E e \in Decided : e \notin accepted
    /\ \E e \in accepted : last_trigger_time = ev_time[e] /\ e \in started

\* C24: in watcher or combined mode, once a termination signal has been
\* received the process eventually exits.
C24_ShutdownCompletes ==
    (signals > 0 /\ ~mcp_server_only) ~> pexit

\* After a signal in combined mode main() went through its finally block,
\* joined the observer thread, which had started an indexing run, and the
\* process has exited.
C24_Witness ==
    /\ pexit /\ signals > 0 /\ with_mcp_server
    /\ mpc = "fin_mcp_join" /\ started # {}

\* C25: the companion process is never spawned in a state where shutdown
\* has already been requested.
C25_NoSpawnAfterShutdown ==
    [][(companion = "none" /\ companion' = "running") => ~shutdown_event]_vars

\* C26: a thread that is about to start or is inside an indexing run does
\* not hold the debounce lock and has already recorded its event's time in
\* last_trigger_time; whoever holds the lock is inside the short with block.
C26_LockNotHeldDuringRun ==
    /\ \A t \in Threads :
        tpc[t] \in {"trigger", "running"} => (lock # t /\ tev[t] \in accepted)
    /\ lock # NoThread => tpc[lock] \in {"locked", "update"}

\* While one thread is inside an indexing run, another thread has taken
\* the lock for its own debounce check.
C26_Witness ==
    \E t1, t2 \in Threads :
        /\ tpc[t1] = "running"
        /\ tpc[t2] = "locked" /\ lock = t2

====
